---- MODULE Spec2Model ----
(***************************************************************************)
(* Model of bot.py: a Telegram bot that downloads an uploaded video,       *)
(* probes its resolution, and on the "enhance" button runs ffmpeg on it.   *)
(*                                                                         *)
(* Two specifications:                                                     *)
(*   Spec          the bot: main, the dispatcher's handlers, the local     *)
(*                 files and the ffmpeg processes the handlers spawn;      *)
(*   SpecProgress  the progress loop of enhance_video (lines 87-114) run   *)
(*                 on an encoder stream from the loop's entry state.       *)
(*                                                                         *)
(* The dispatcher built in main runs the handlers one update at a time     *)
(* (no handler is registered with run_async), so handlers never interleave *)
(* with each other; they interleave with the ffmpeg processes, which are   *)
(* separate operating-system processes.                                    *)
(*                                                                         *)
(* enhance_video uses the name `re` (line 68) which the module never       *)
(* imports: after spawning ffmpeg and sending the first progress message   *)
(* it always raises NameError, which line 123 turns into RuntimeError.     *)
(* Lines 71-122 are therefore not reached by Spec; the progress loop is    *)
(* modelled on its own in SpecProgress.                                    *)
(***************************************************************************)
EXTENDS Integers, Sequences, FiniteSets

\* ---------------------------------------------------------------- bounds
MaxJobs == 2          \* ffmpeg launches (Popen calls) in one behaviour
MaxLines == 4         \* lines read from the encoder stream by the progress loop

\* ------------------------------------------------------------- vocabulary
Convs == {"c1", "c2"}                 \* conversations (one user_data each)
Nobody == "nobody"
NoKey == "no_key"                     \* 'input_path' not in user_data
Options == {"enhance", "other"}       \* query.data of a callback query

\* handle_video, line 149: the same name for every conversation
input_path(c) == "input.mp4"
\* handle_resolution_selection, line 186: the same name for every conversation
output_path(c) == "output.mp4"

Paths == {input_path(c) : c \in Convs} \cup {output_path(c) : c \in Convs}

\* A local file: absent, or holding data that came from conversation `conv`
\* (an upload of conv, or the output of job number `job` of conv).
NoFile == [exists |-> FALSE, conv |-> Nobody, job |-> 0]
UploadOf(c) == [exists |-> TRUE, conv |-> c, job |-> 0]
OutputOf(c, j) == [exists |-> TRUE, conv |-> c, job |-> j]

VARIABLES
    boot,        \* main: "init", "polling" (handlers registered), "failed"
    user_data,   \* user_data[c]: value of context.user_data['input_path'], or NoKey
    fs,          \* fs[p]: the local file at path p
    jobs,        \* one record per call of enhance_video, in call order
    pc,          \* the update the dispatcher is handling, if it is inside enhance_video
    last,        \* what the handler that finished last did, and for which conversation
    total_duration,          \* progress loop: total duration, in 1/100 s
    last_progress_percent,   \* progress loop: last percentage sent, -1 at entry
    lines_read,              \* progress loop: lines read from the stream so far
    times,                   \* progress loop: elapsed times of the markers read, 1/100 s
    sent,                    \* progress loop: percentages sent with edit_text, in order
    ppc                      \* enhance_video after line 65: "unreached", "scan", "raised", "loop", "waited"

botVars == <<boot, user_data, fs, jobs, pc, last>>
loopVars == <<total_duration, last_progress_percent, lines_read, times, sent, ppc>>
vars == <<boot, user_data, fs, jobs, pc, last,
          total_duration, last_progress_percent, lines_read, times, sent, ppc>>

Idle == [handler |-> "idle", conv |-> Nobody, job |-> 0]
NoEvent == [conv |-> Nobody, event |-> "none", reply |-> "none", escaped |-> FALSE]

\* What a handler of conversation c did: the event path it took, the last
\* text it sent to the chat, and whether an exception left the handler.
Done(c, event, reply, escaped) ==
    [conv |-> c, event |-> event, reply |-> reply, escaped |-> escaped]

\* os.path.exists(p) followed by os.remove(p) (lines 169-170, 202-205)
RemoveIfExists(f, p) == [f EXCEPT ![p] = NoFile]

InitBot ==
    /\ boot = "init"
    /\ user_data = [c \in Convs |-> NoKey]
    /\ fs = [p \in Paths |-> NoFile]
    /\ jobs = <<>>
    /\ pc = Idle
    /\ last = NoEvent

LoopUnreached ==
    /\ total_duration = 0
    /\ last_progress_percent = -1
    /\ lines_read = 0
    /\ times = <<>>
    /\ sent = <<>>
    /\ ppc = "unreached"

Init == InitBot /\ LoopUnreached

\* ------------------------------------------------------------------ main
\* main, lines 217-246. Without BOT_TOKEN the ValueError of line 223 is caught
\* at line 245 and main returns: no Updater, no handler, no polling.
main(token_set) ==
    /\ boot = "init"
    /\ boot' = IF token_set THEN "polling" ELSE "failed"
    /\ UNCHANGED <<user_data, fs, jobs, pc, last>>
    /\ UNCHANGED loopVars

\* The dispatcher started although main had found no token.
Dispatching_without_token == boot # "init" /\ pc = Idle

\* The dispatcher takes the next update only when the previous handler returned.
Dispatching == boot = "polling" /\ pc = Idle

\* -------------------------------------------------------- handle_message
\* A message without a video handled like a failed upload: the stored file
\* is removed.
handle_message_other_removes(c) ==
    /\ Dispatching
    /\ fs' = RemoveIfExists(fs, input_path(c))
    /\ last' = Done(c, "non_video", "guidance", FALSE)
    /\ UNCHANGED <<boot, user_data, jobs, pc>>
    /\ UNCHANGED loopVars

\* handle_message, lines 137-138: a message without a video.
handle_message_other(c) ==
    /\ Dispatching
    /\ last' = Done(c, "non_video", "guidance", FALSE)
    /\ UNCHANGED <<boot, user_data, fs, jobs, pc>>
    /\ UNCHANGED loopVars

UploadOutcomes == {"get_file_error", "download_error", "probe_error", "ok"}

\* handle_video, lines 144-175 (called from handle_message, line 136).
\*   get_file_error  line 148 raises: input_path is still None, nothing removed
\*   download_error  line 150 raises: input.mp4 is removed if it exists
\*   probe_error     get_video_resolution raises ValueError: input.mp4 removed
\*   ok              session stored, options sent
\* No branch deletes user_data['input_path'].
handle_video(c, outcome) ==
    /\ Dispatching
    /\ fs' = CASE outcome = "get_file_error" -> fs
               [] outcome = "download_error" -> RemoveIfExists(fs, input_path(c))
               [] outcome = "probe_error" -> RemoveIfExists(fs, input_path(c))
               [] outcome = "ok" -> [fs EXCEPT ![input_path(c)] = UploadOf(c)]
    /\ user_data' = IF outcome = "ok"
                    THEN [user_data EXCEPT ![c] = input_path(c)]
                    ELSE user_data
    /\ last' = CASE outcome = "ok" -> Done(c, "upload", "options", FALSE)
                 [] outcome = "probe_error" -> Done(c, "upload_failed", "error", FALSE)
                 [] OTHER -> Done(c, "upload_failed", "unexpected", FALSE)
    /\ UNCHANGED <<boot, jobs, pc>>
    /\ UNCHANGED loopVars

\* ------------------------------------------- handle_resolution_selection
\* One call of enhance_video: the conversation, the ffmpeg process it spawned
\* (enc: "spawn_failed", "spawned", "opened", "encoding", "exited"), the
\* process's exit status ("none" while it runs), the upload ffmpeg opened as
\* its input, what enhance_video did ("running", "failed", "success"), and
\* the total duration enhance_video knows: none when Popen is called at line
\* 53, since the only code that finds one (lines 71-81) reads it from the
\* output of the process spawned there.
Job(c, enc) ==
    [conv |-> c, enc |-> enc, exit |-> "none", src |-> Nobody,
     result |-> IF enc = "spawn_failed" THEN "failed" ELSE "running",
     duration |-> "unknown"]

Running(j) == jobs[j].enc \in {"spawned", "opened", "encoding"}

\* The removals placed under `if selected_option == "enhance"`: a selection
\* that does not encode removes nothing it did not create.
selection_cleanup_output_only(f, c) == RemoveIfExists(f, output_path(c))

\* The removals of handle_resolution_selection: lines 197-198, and the
\* except block, lines 199-205, entered with input_path and output_path
\* bound. Together they remove both files if present.
selection_cleanup(f, c) ==
    RemoveIfExists(RemoveIfExists(f, user_data[c]), output_path(c))

\* handle_resolution_selection, lines 179-185 and 199-202, for a conversation
\* with no 'input_path' in user_data: line 185 raises KeyError inside the try,
\* line 200 reports it, and line 202 reads input_path, which was never bound:
\* UnboundLocalError leaves the handler. No file is touched.
selection_no_session(c, o) ==
    /\ Dispatching
    /\ user_data[c] = NoKey
    /\ last' = Done(c, "selection_no_session", "error", TRUE)
    /\ UNCHANGED <<boot, user_data, fs, jobs, pc>>
    /\ UNCHANGED loopVars

\* handle_resolution_selection, lines 184-205, with a session and query.data
\* other than "enhance": lines 197-198 remove both files; os.remove raises on
\* a missing file, and the except block then removes whichever file is left
\* and reports the error. user_data is not changed.
selection_other(c) ==
    /\ Dispatching
    /\ user_data[c] # NoKey
    /\ fs' = selection_cleanup(fs, c)
    /\ last' = IF fs[user_data[c]].exists /\ fs[output_path(c)].exists
               THEN Done(c, "selection_other", "none", FALSE)
               ELSE Done(c, "selection_other", "error", FALSE)
    /\ UNCHANGED <<boot, user_data, jobs, pc>>
    /\ UNCHANGED loopVars

\* handle_resolution_selection, lines 184-190 and 199-205, and enhance_video,
\* lines 53 and 123-125, when Popen raises (ffmpeg cannot be started): the
\* error is reported and both files are removed if present.
enhance_video_spawn_error(c) ==
    /\ Dispatching
    /\ user_data[c] # NoKey
    /\ Len(jobs) < MaxJobs
    /\ jobs' = Append(jobs, Job(c, "spawn_failed"))
    /\ fs' = selection_cleanup(fs, c)
    /\ last' = Done(c, "selection_enhance", "error", FALSE)
    /\ UNCHANGED <<boot, user_data, pc>>
    /\ UNCHANGED loopVars

\* handle_resolution_selection, lines 184-190, and enhance_video, lines 42-65:
\* ffmpeg is spawned on the stored input path and the "0% complete" message
\* is sent. The handler is now inside enhance_video.
enhance_video_start(c) ==
    /\ Dispatching
    /\ user_data[c] # NoKey
    /\ Len(jobs) < MaxJobs
    /\ jobs' = Append(jobs, Job(c, "spawned"))
    /\ pc' = [handler |-> "selection", conv |-> c, job |-> Len(jobs) + 1]
    /\ UNCHANGED <<boot, user_data, fs, last>>
    /\ UNCHANGED loopVars

\* What enhance_video does after the first progress message: line 68 raises
\* NameError (`re` is not imported), line 125 re-raises it as RuntimeError.
\* ffmpeg is neither read, waited for nor killed. (With `re` imported the
\* result would be the same: process.stderr is None under stderr=STDOUT, so
\* line 74 yields "" and line 85 raises.)
enhance_video_result == "failed"

\* enhance_video, lines 68 and 123-125, then handle_resolution_selection,
\* lines 199-205: the error is reported and both files are removed if present.
\* Lines 193-198 (delivery, cleanup after success) run only on "success".
enhance_video_finish ==
    /\ pc.handler = "selection"
    /\ jobs' = [jobs EXCEPT ![pc.job].result = enhance_video_result]
    /\ fs' = selection_cleanup(fs, pc.conv)
    /\ last' = IF enhance_video_result = "success"
               THEN Done(pc.conv, "selection_enhance", "video", FALSE)
               ELSE Done(pc.conv, "selection_enhance", "error", FALSE)
    /\ pc' = Idle
    /\ UNCHANGED <<boot, user_data>>
    /\ UNCHANGED loopVars

\* ------------------------------------------------------------------ ffmpeg
\* The process spawned at line 53 with the command of lines 42-50. It runs on
\* its own; nothing in bot.py stops it.

\* ffmpeg opens its input (-i input.mp4): a missing file ends it with an error.
ffmpeg_open_input(j) ==
    /\ jobs[j].enc = "spawned"
    /\ LET f == fs[input_path(jobs[j].conv)] IN
       jobs' = IF f.exists
               THEN [jobs EXCEPT ![j].enc = "opened", ![j].src = f.conv]
               ELSE [jobs EXCEPT ![j].enc = "exited", ![j].exit = "nonzero"]
    /\ UNCHANGED <<boot, user_data, fs, pc, last>>
    /\ UNCHANGED loopVars

\* ffmpeg creates its output (output.mp4). The command has no -y: when the
\* file exists ffmpeg asks on its standard input, and either gives up or is
\* told to overwrite.
ffmpeg_create_output(j, overwrite) ==
    /\ jobs[j].enc = "opened"
    /\ LET p == output_path(jobs[j].conv) IN
       IF fs[p].exists /\ ~overwrite
       THEN /\ jobs' = [jobs EXCEPT ![j].enc = "exited", ![j].exit = "nonzero"]
            /\ fs' = fs
       ELSE /\ jobs' = [jobs EXCEPT ![j].enc = "encoding"]
            /\ fs' = [fs EXCEPT ![p] = OutputOf(jobs[j].conv, j)]
    /\ UNCHANGED <<boot, user_data, pc, last>>
    /\ UNCHANGED loopVars

\* ffmpeg finishes the encode and exits with status 0.
ffmpeg_exit_ok(j) ==
    /\ jobs[j].enc = "encoding"
    /\ jobs' = [jobs EXCEPT ![j].enc = "exited", ![j].exit = "zero"]
    /\ UNCHANGED <<boot, user_data, fs, pc, last>>
    /\ UNCHANGED loopVars

\* ffmpeg ends with a non-zero status (bad input, write to the closed pipe,
\* killed); a partly written output file stays where it is.
ffmpeg_fail(j) ==
    /\ Running(j)
    /\ jobs' = [jobs EXCEPT ![j].enc = "exited", ![j].exit = "nonzero"]
    /\ UNCHANGED <<boot, user_data, fs, pc, last>>
    /\ UNCHANGED loopVars

Next ==
    \/ \E t \in BOOLEAN : main(t)
    \/ \E c \in Convs : handle_message_other(c)
    \/ \E c \in Convs, o \in UploadOutcomes : handle_video(c, o)
    \/ \E c \in Convs, o \in Options : selection_no_session(c, o)
    \/ \E c \in Convs : selection_other(c)
    \/ \E c \in Convs : enhance_video_spawn_error(c)
    \/ \E c \in Convs : enhance_video_start(c)
    \/ enhance_video_finish
    \/ \E j \in DOMAIN jobs : ffmpeg_open_input(j)
    \/ \E j \in DOMAIN jobs, w \in BOOLEAN : ffmpeg_create_output(j, w)
    \/ \E j \in DOMAIN jobs : ffmpeg_exit_ok(j)
    \/ \E j \in DOMAIN jobs : ffmpeg_fail(j)

Spec == Init /\ [][Next]_vars

\* ------------------------------------------- enhance_video: progress loop
\* A "time=HH:MM:SS.ff" marker as the groups of time_regex (line 68): hours,
\* minutes, and the seconds field counted in hundredths of a second. The
\* pattern has no sign, so no field is negative.
TimeMarkers ==
    { <<0, 0, 0>>, <<0, 0, 25>>, <<0, 0, 50>>, <<0, 0, 150>>,
      <<0, 1, 0>>, <<1, 0, 0>> }

\* The "Duration: HH:MM:SS.ff" values the loop is entered with.
DurationMarkers == { <<0, 0, 50>>, <<0, 0, 200>>, <<0, 1, 0>> }

\* Lines 80-81 and 99-100: hours * 3600 + minutes * 60 + seconds, in 1/100 s.
to_seconds(t) == (t[1] * 3600 + t[2] * 60) * 100 + t[3]

MinOf(a, b) == IF a <= b THEN a ELSE b

\* Line 103 with the clamp left out.
progress_percent_unclamped(current_seconds, total) ==
    (current_seconds * 100) \div total

\* Line 103: min(int((current_seconds / total_duration) * 100), 100). Both
\* operands are non-negative, so int() is the floor. (In floating point the
\* quotient can come out one below an exact multiple; on the values of
\* TimeMarkers and DurationMarkers Python computes these same numbers.)
progress_percent(current_seconds, total) ==
    MinOf((current_seconds * 100) \div total, 100)

\* Line 106 with the comparison left out: every marker is sent.
send_always(percent, last_percent) == TRUE

\* Line 106: the message is edited only when the percentage differs from the
\* last one sent.
should_send(percent, last_percent) == percent # last_percent

\* Entry of the loop, lines 87-88: total_duration is set and non-zero (line
\* 84), nothing sent yet.
InitProgress ==
    /\ InitBot
    /\ \E d \in DurationMarkers : total_duration = to_seconds(d)
    /\ total_duration > 0
    /\ last_progress_percent = -1
    /\ lines_read = 0
    /\ times = <<>>
    /\ sent = <<>>
    /\ ppc = "loop"

\* The lines of the stream that carry no time marker: free text, and the
\* "Duration: HH:MM:SS.ff" line of the input (stderr is merged into stdout,
\* line 56, so the loop reads that line too).
OtherLines == {"text", "duration"}

\* A pattern without the "time=" prefix: it finds the timestamp of a
\* "Duration:" line as well.
time_regex_loose(kind) == kind \in {"time", "duration"}

\* Lines 68 and 96-97: time_regex finds "time=" followed by a timestamp.
time_regex_search(kind) == kind = "time"

\* Lines 102-114: the percentage of a matched timestamp is computed and sent
\* with edit_text when should_send says so.
update_progress(current_seconds) ==
    LET percent == progress_percent(current_seconds, total_duration) IN
    IF should_send(percent, last_progress_percent)
    THEN /\ sent' = Append(sent, percent)
         /\ last_progress_percent' = percent
    ELSE UNCHANGED <<sent, last_progress_percent>>

\* Lines 91-97: a line without a time marker is read; time_regex does not
\* match it and it is skipped. (The timestamp of a "Duration:" line is the
\* total duration.)
read_other_line(kind) ==
    /\ ppc = "loop"
    /\ lines_read < MaxLines
    /\ lines_read' = lines_read + 1
    /\ IF time_regex_search(kind)
       THEN update_progress(total_duration)
       ELSE UNCHANGED <<sent, last_progress_percent>>
    /\ UNCHANGED <<total_duration, times, ppc>>
    /\ UNCHANGED botVars

\* Lines 91-114: a line with a time marker is read; its percentage is sent
\* with edit_text when should_send says so.
read_time_line(t) ==
    /\ ppc = "loop"
    /\ lines_read < MaxLines
    /\ lines_read' = lines_read + 1
    /\ times' = Append(times, to_seconds(t))
    /\ IF time_regex_search("time")
       THEN update_progress(to_seconds(t))
       ELSE UNCHANGED <<sent, last_progress_percent>>
    /\ UNCHANGED <<total_duration, ppc>>
    /\ UNCHANGED botVars

\* Lines 91-93 and 117: the stream ends, the loop is left, the process is
\* waited for.
read_end_of_stream ==
    /\ ppc = "loop"
    /\ ppc' = "waited"
    /\ UNCHANGED <<total_duration, last_progress_percent, lines_read, times, sent>>
    /\ UNCHANGED botVars

NextProgress ==
    \/ \E k \in OtherLines : read_other_line(k)
    \/ \E t \in TimeMarkers : read_time_line(t)
    \/ read_end_of_stream

SpecProgress == InitProgress /\ [][NextProgress]_vars

\* ------------------------------------- enhance_video: duration scan and loop
\* total_duration = None (line 72)
NoDuration == -1

\* The percentage shown by the message of lines 61-65, "Enhancing video... 0%
\* complete", sent before anything is read from the process.
initial_progress_percent == 0

\* Everything enhance_video has shown as progress: the initial message, then
\* its edits.
progress_messages == <<initial_progress_percent>> \o sent

\* The values a "Duration:" line can carry: duration_regex (line 69) has no
\* sign, and 00:00:00.00 is a value ffmpeg can print.
DurationLines == DurationMarkers \cup { <<0, 0, 0>> }

\* Line 84 written as `total_duration is None`: a zero duration passes.
duration_is_none(d) == d = NoDuration

\* Line 84, `not total_duration`: None and 0.0 are both missing.
duration_missing(d) == d = NoDuration \/ d = 0

\* State after lines 60-72: the first message is sent, no duration yet.
InitRun ==
    /\ InitBot
    /\ total_duration = NoDuration
    /\ last_progress_percent = -1
    /\ lines_read = 0
    /\ times = <<>>
    /\ sent = <<>>
    /\ ppc = "scan"

\* Lines 84-88 after the scan has ended with duration d: ValueError when the
\* duration is missing, else the loop is entered.
after_scan(d) == IF duration_missing(d) THEN "raised" ELSE "loop"

\* Lines 73-78: a line without a duration is read and the scan goes on.
scan_other_line ==
    /\ ppc = "scan"
    /\ lines_read < MaxLines
    /\ lines_read' = lines_read + 1
    /\ UNCHANGED <<total_duration, last_progress_percent, times, sent, ppc>>
    /\ UNCHANGED botVars

\* Lines 73-88: a "Duration:" line is read, total_duration is set, the scan
\* ends.
scan_duration_line(d) ==
    /\ ppc = "scan"
    /\ lines_read < MaxLines
    /\ lines_read' = lines_read + 1
    /\ total_duration' = to_seconds(d)
    /\ ppc' = after_scan(to_seconds(d))
    /\ UNCHANGED <<last_progress_percent, times, sent>>
    /\ UNCHANGED botVars

\* Lines 74-76 and 84-85: no line is left (or process.stderr is None, which
\* is what Popen with stderr=STDOUT gives): the scan ends without a duration.
scan_end_of_stream ==
    /\ ppc = "scan"
    /\ ppc' = after_scan(total_duration)
    /\ UNCHANGED <<total_duration, last_progress_percent, lines_read, times, sent>>
    /\ UNCHANGED botVars

NextRun ==
    \/ scan_other_line
    \/ \E d \in DurationLines : scan_duration_line(d)
    \/ scan_end_of_stream
    \/ \E k \in OtherLines : read_other_line(k)
    \/ \E t \in TimeMarkers : read_time_line(t)
    \/ read_end_of_stream

SpecRun == InitRun /\ [][NextRun]_vars

\* ================================================================ claims

\* The state of a conversation in the flow controller's terms: Encoding while
\* its selection handler is inside enhance_video, AwaitingSelection while a
\* session is stored, Idle otherwise.
conv_state(c) ==
    IF pc.handler = "selection" /\ pc.conv = c THEN "Encoding"
    ELSE IF user_data[c] # NoKey THEN "AwaitingSelection"
    ELSE "Idle"

\* The job has ended: enhance_video has returned or raised and the ffmpeg
\* process, if one was spawned, has exited.
JobEnded(j) == jobs[j].result # "running" /\ ~Running(j)

\* j is the latest job of its conversation and its handler is the one that
\* finished last: a file of the conversation at the input path is
\* then the upload the job was started on.
LatestJob(j) ==
    /\ last.conv = jobs[j].conv
    /\ last.event = "selection_enhance"
    /\ \A k \in DOMAIN jobs : k > j => jobs[k].conv # jobs[j].conv

InputLeft(j) ==
    LET f == fs[input_path(jobs[j].conv)] IN f.exists /\ f.conv = jobs[j].conv

OutputLeft(j) ==
    LET f == fs[output_path(jobs[j].conv)] IN f.exists /\ f.job = j

\* C1: a selection for a conversation without a stored session is reported
\* to the user as an error, no exception leaves the handler, and the
\* conversation is Idle afterwards.
C1_NoSessionSelectionRecovers ==
    \A c \in Convs :
        (last.conv = c /\ last.event = "selection_no_session") =>
            /\ last.reply = "error"
            /\ ~last.escaped
            /\ conv_state(c) = "Idle"

\* C2: an "enhance" selection with a valid session whose ffmpeg run reported a
\* duration (it opened its input) and exited with status zero ends in success:
\* the output is delivered, both files are removed, the conversation is Idle.
C2_EnhanceSucceeds ==
    \A j \in DOMAIN jobs :
        (jobs[j].result # "running" /\ jobs[j].src # Nobody /\ jobs[j].exit = "zero") =>
            /\ jobs[j].result = "success"
            /\ LatestJob(j) =>
                   /\ last.reply = "video"
                   /\ conv_state(jobs[j].conv) = "Idle"
            /\ ~OutputLeft(j)
            /\ LatestJob(j) => ~InputLeft(j)

\* C3: when ffmpeg exits with a non-zero status the job is a failure, nothing
\* is delivered, and neither the input nor the output file of the job is left.
C3_EncodeFailedCleansUp ==
    \A j \in DOMAIN jobs :
        (JobEnded(j) /\ jobs[j].exit = "nonzero") =>
            /\ jobs[j].result = "failed"
            /\ ~OutputLeft(j)
            /\ LatestJob(j) => ~InputLeft(j)

\* C4: once a job started by a selection with a valid session has ended, on
\* whatever path, neither its input nor its output file remains on disk.
C4_NoFileLeftAfterJob ==
    \A j \in DOMAIN jobs :
        JobEnded(j) => (~OutputLeft(j) /\ (LatestJob(j) => ~InputLeft(j)))

\* C5: the files of one conversation are not touched by another one: the
\* file a stored session points to holds that conversation's upload (no
\* other conversation wrote or replaced it), and ffmpeg reads as its input
\* the upload of the conversation whose job spawned it.
C5_NoPathCollision ==
    /\ \A c \in Convs :
           (user_data[c] # NoKey /\ fs[user_data[c]].exists) =>
               fs[user_data[c]].conv = c
    /\ \A j \in DOMAIN jobs : jobs[j].src \in {Nobody, jobs[j].conv}

\* C6: at most one ffmpeg run of a conversation is in flight at any time.
C6_OneActiveJobPerConversation ==
    \A c \in Convs :
        Cardinality({j \in DOMAIN jobs : Running(j) /\ jobs[j].conv = c}) <= 1

\* C7: after a job of a conversation has completed or failed, the session of
\* the conversation is cleared, so that a further selection finds no session.
C7_SessionClearedAfterJob ==
    \A c \in Convs :
        (last.conv = c /\ last.event = "selection_enhance") => user_data[c] = NoKey

NonDecreasing(s) == \A i \in 1..(Len(s) - 1) : s[i] <= s[i + 1]

NoConsecutiveEqual(s) == \A i \in 1..(Len(s) - 1) : s[i] # s[i + 1]

WithinDuration == \A i \in 1..Len(times) : times[i] <= total_duration

\* C8: for a duration D > 0 and markers 0 <= t1 <= ... <= tn <= D, the
\* percentages sent by the progress loop are non-decreasing and no two
\* consecutive ones are equal.
C8_MonotoneMarkersGiveMonotoneProgress ==
    (ppc # "unreached" /\ total_duration > 0 /\ NonDecreasing(times) /\ WithinDuration) =>
        (NonDecreasing(sent) /\ NoConsecutiveEqual(sent))

\* C8 witness: three or more markers in order within the duration, two or
\* more percentages sent, and at least one marker suppressed as a repeat.
C8_Witness ==
    /\ ppc = "waited"
    /\ NonDecreasing(times) /\ WithinDuration
    /\ Len(times) >= 3
    /\ Len(sent) >= 2
    /\ Len(sent) < Len(times)

C10_PercentWithinBounds ==
    \A i \in 1..Len(sent) : 0 <= sent[i] /\ sent[i] <= 100

\* C10 witness: the last marker read lies beyond the duration and 100 was sent
\* for it.
C10_Witness ==
    /\ Len(times) >= 1
    /\ times[Len(times)] > total_duration
    /\ Len(sent) >= 1
    /\ sent[Len(sent)] = 100
    /\ last_progress_percent = 100

\* C11: the total duration is known before ffmpeg is launched, and a run
\* that fails without a duration has never started ffmpeg.
C11_DurationBeforeLaunch ==
    \A j \in DOMAIN jobs :
        /\ jobs[j].enc # "spawn_failed" => jobs[j].duration # "unknown"
        /\ (jobs[j].result = "failed" /\ jobs[j].duration = "unknown") =>
               jobs[j].enc = "spawn_failed"

\* C14: a message without a video is answered with the guidance text and
\* changes nothing else: no file, no session, no job, no handler position.
C14_NonVideoChangesNothing ==
    [][(last'.event = "non_video" /\ last' # last) =>
          /\ last'.reply = "guidance"
          /\ ~last'.escaped
          /\ UNCHANGED <<boot, user_data, fs, jobs, pc>>
          /\ \A c \in Convs : conv_state(c)' = conv_state(c)]_vars

\* C14 witness: a message without a video was handled for a conversation
\* that has a stored session and an upload on disk.
C14_Witness ==
    /\ last.event = "non_video"
    /\ user_data[last.conv] # NoKey
    /\ fs[user_data[last.conv]].exists
    /\ fs[user_data[last.conv]].conv = last.conv

NothingProcessed ==
    /\ last = NoEvent
    /\ jobs = <<>>
    /\ pc = Idle
    /\ user_data = [c \in Convs |-> NoKey]
    /\ fs = [p \in Paths |-> NoFile]

\* C15: without the token, start-up fails and stays failed: no update is ever
\* handled, so nothing is replied, stored, downloaded or spawned.
C15_NoTokenNothingRuns == boot = "failed" => NothingProcessed

\* C15 witness: main has run without the token.
C15_Witness == boot = "failed" /\ NothingProcessed

\* C16: after a failed upload no session of the conversation is left that
\* points to a removed file (the conversation is back to Idle), also when an
\* earlier upload had stored one.
C16_FailedUploadClearsSession ==
    \A c \in Convs :
        (last.conv = c /\ last.event = "upload_failed" /\ user_data[c] # NoKey) =>
            fs[user_data[c]].exists

\* C17: when enhance_video has returned or raised, the ffmpeg process it
\* spawned has terminated.
C17_EncoderEndsWithJob ==
    \A j \in DOMAIN jobs : jobs[j].result # "running" => ~Running(j)

\* C18 as claimed: a selection with a session and an option other than
\* "enhance" spawns nothing and leaves the session and its input file as
\* they were.
C18_OtherOptionLeavesInput ==
    [][(last'.event = "selection_other" /\ last' # last) =>
          /\ jobs' = jobs
          /\ user_data' = user_data
          /\ fs'[user_data[last'.conv]] = fs[user_data[last'.conv]]]_vars

\* C18 amended: such a selection spawns nothing, delivers nothing and leaves
\* the session as it was, but removes the input and the output file.
C18_OtherOptionRemovesFiles ==
    [][(last'.event = "selection_other" /\ last' # last) =>
          /\ jobs' = jobs /\ pc' = pc
          /\ user_data' = user_data
          /\ last'.reply \in {"none", "error"}
          /\ ~fs'[user_data[last'.conv]].exists
          /\ ~fs'[output_path(last'.conv)].exists]_vars

\* C18 witness: such a selection was handled while the upload of the
\* conversation was on disk; the session is still stored.
C18_Witness ==
    /\ last.event = "selection_other"
    /\ last.reply = "none"
    /\ user_data[last.conv] # NoKey
    /\ ~fs[user_data[last.conv]].exists

\* C12: a percentage is computed only with a positive total duration: a
\* missing or zero duration ends the run (ValueError, line 85) before the
\* loop, with nothing computed or sent.
C12_DurationPositiveOrFail ==
    /\ ppc \in {"loop", "waited"} => total_duration > 0
    /\ (times # <<>> \/ sent # <<>>) => total_duration > 0
    /\ (ppc # "scan" /\ total_duration <= 0) =>
           (ppc = "raised" /\ times = <<>> /\ sent = <<>>)

\* C12 witness: a "Duration: 00:00:00.00" line was read and the run ended
\* with the error.
C12_Witness ==
    /\ ppc = "raised"
    /\ total_duration = 0
    /\ lines_read >= 1
    /\ sent = <<>>

StreamClosedWithoutMarker == ppc \in {"raised", "waited"} /\ times = <<>>

====
